---- MODULE Spec2Model ----
(***************************************************************************)
(* Model of the Mathematics-MCP server (src/main.py): 22 tools, each a     *)
(* handler that receives a payload validated against a pydantic schema,    *)
(* computes inside try/except, logs one line and returns an envelope.      *)
(*                                                                         *)
(* Numbers.  A Python float is modelled by the exact rational it denotes,  *)
(* [n |-> numerator, d |-> denominator > 0] in lowest terms; rounding is   *)
(* not modelled, and the IEEE specials (inf, nan) are outside the number   *)
(* domain.  A result that is irrational in general (log, sin, a fractional *)
(* power) is kept as the unevaluated term [fn, x, y].                      *)
(***************************************************************************)
EXTENDS Integers, Sequences, FiniteSets, TLC

(***************************************************************************)
(* Bounds of the model.                                                    *)
(***************************************************************************)
MaxAbs == 3        \* integer inputs range over -MaxAbs .. MaxAbs
MaxLen == 3        \* longest list payload
MaxCalls == 1      \* calls served in one behaviour

(***************************************************************************)
(* Exact rational arithmetic standing for float arithmetic.                *)
(***************************************************************************)
Abs(i) == IF i < 0 THEN -i ELSE i

RECURSIVE GcdNat(_, _)
GcdNat(x, y) == IF y = 0 THEN x ELSE GcdNat(y, x % y)

Rat(n, d) ==
    LET g == GcdNat(Abs(n), Abs(d))
        s == IF d < 0 THEN -1 ELSE 1
    IN  [n |-> (s * n) \div g, d |-> (s * d) \div g]

Zero == Rat(0, 1)
One == Rat(1, 1)
Half == Rat(1, 2)

RAdd(p, q) == Rat(p.n * q.d + q.n * p.d, p.d * q.d)
RSub(p, q) == Rat(p.n * q.d - q.n * p.d, p.d * q.d)
RMul(p, q) == Rat(p.n * q.n, p.d * q.d)
RDiv(p, q) == Rat(p.n * q.d, p.d * q.n)
RLt(p, q) == p.n * q.d < q.n * p.d
RLe(p, q) == p.n * q.d <= q.n * p.d
RAbs(p) == [n |-> Abs(p.n), d |-> p.d]

\* int(x): truncation toward zero
TruncInt(p) == IF p.n >= 0 THEN p.n \div p.d ELSE -((-p.n) \div p.d)
\* math.floor(x), math.ceil(x)
math_floor(p) == p.n \div p.d
math_ceil(p) == -((-p.n) \div p.d)

\* float % float: the remainder takes the sign of the divisor
PyMod_truncated(p, q) == RSub(p, RMul(q, Rat(TruncInt(RDiv(p, q)), 1)))
PyMod(p, q) == RSub(p, RMul(q, Rat(math_floor(RDiv(p, q)), 1)))

RECURSIVE IPow(_, _)
IPow(p, k) == IF k = 0 THEN One ELSE RMul(p, IPow(p, k - 1))

RECURSIVE IsqrtFrom(_, _)
IsqrtFrom(n, k) == IF k * k >= n THEN k ELSE IsqrtFrom(n, k + 1)
IsSquare(n) == LET k == IsqrtFrom(n, 0) IN k * k = n
HasRoot(p) == p.n >= 0 /\ IsSquare(p.n) /\ IsSquare(p.d)
Root(p) == Rat(IsqrtFrom(p.n, 0), IsqrtFrom(p.d, 0))

(***************************************************************************)
(* Python values held in an envelope's `result`.                           *)
(***************************************************************************)
PyFloat(r) == [type |-> "float", fn |-> "exact", x |-> r, y |-> Zero]
PyInt(i) == [type |-> "int", fn |-> "exact", x |-> Rat(i, 1), y |-> Zero]
PyTerm(t, f, a, b) == [type |-> t, fn |-> f, x |-> a, y |-> b]

Returned(v) == [raised |-> FALSE, msg |-> "", val |-> v]
Raised(m) == [raised |-> TRUE, msg |-> m, val |-> PyFloat(Zero)]

\* float ** float and pow(float, float)
float_pow(b, e) ==
    IF e = Zero THEN Returned(PyFloat(One))
    ELSE IF b = Zero /\ RLt(e, Zero)
        THEN Raised("0.0 cannot be raised to a negative power")
    ELSE IF e.d = 1
        THEN Returned(PyFloat(IF e.n > 0 THEN IPow(b, e.n)
                                         ELSE RDiv(One, IPow(b, -e.n))))
    ELSE IF RLt(b, Zero) THEN Returned(PyTerm("complex", "pow", b, e))
    ELSE IF e.d = 2 /\ HasRoot(b)
        THEN Returned(PyFloat(IF e.n > 0 THEN IPow(Root(b), e.n)
                                         ELSE RDiv(One, IPow(Root(b), -e.n))))
    ELSE Returned(PyTerm("float", "pow", b, e))

RECURSIVE math_factorial(_)
math_factorial(k) == IF k <= 1 THEN 1 ELSE k * math_factorial(k - 1)

math_gcd(i, j) == GcdNat(Abs(i), Abs(j))
math_lcm_signed(i, j) == IF i = 0 \/ j = 0 THEN 0 ELSE (i * j) \div math_gcd(i, j)
math_lcm(i, j) == IF i = 0 \/ j = 0 THEN 0 ELSE Abs(i * j) \div math_gcd(i, j)

math_log(value, base) == PyTerm("float", "log", value, base)
math_ln(a) == PyTerm("float", "ln", a, Zero)
math_sqrt(v) == IF HasRoot(v) THEN PyFloat(Root(v)) ELSE PyTerm("float", "sqrt", v, Zero)

\* math.radians(angle), in units of pi
math_radians(angle) == RDiv(angle, Rat(180, 1))
math_sin(r) == PyTerm("float", "sin", r, Zero)
math_cos(r) == PyTerm("float", "cos", r, Zero)
math_tan(r) == PyTerm("float", "tan", r, Zero)

RECURSIVE sum(_)
sum(numbers) == IF numbers = <<>> THEN Zero ELSE RAdd(Head(numbers), sum(Tail(numbers)))

RECURSIVE Insert(_, _)
Insert(x, s) ==
    IF s = <<>> THEN <<x>>
    ELSE IF RLe(x, Head(s)) THEN <<x>> \o s
    ELSE <<Head(s)>> \o Insert(x, Tail(s))

\* sorted(numbers): a new ascending list, the argument is not changed
RECURSIVE sorted(_)
sorted(numbers) ==
    IF numbers = <<>> THEN <<>>
    ELSE Insert(Head(numbers), sorted(Tail(numbers)))

RECURSIVE SumSqDev(_, _)
SumSqDev(numbers, m) ==
    IF numbers = <<>> THEN Zero
    ELSE RAdd(IPow(RSub(Head(numbers), m), 2), SumSqDev(Tail(numbers), m))

(***************************************************************************)
(* Response envelopes and log lines.                                       *)
(***************************************************************************)
success_response_with_message(operation, result) ==
    [status |-> "success", operation |-> operation, result |-> result, message |-> ""]

success_response(operation, result) ==
    [status |-> "success", operation |-> operation, result |-> result]

error_response(operation, message) ==
    [status |-> "error", operation |-> operation, message |-> message]

logger_info(opcode, args, result) ==
    [level |-> "INFO", tag |-> opcode, message |-> "", args |-> args, result |-> result]

logger_error(operation, message) ==
    [level |-> "ERROR", tag |-> operation, message |-> message,
     args |-> <<>>, result |-> PyFloat(Zero)]

TryExcept_info_before_check(operation, opcode, args, t) ==
    IF t.raised
    THEN [ret |-> error_response(operation, t.msg),
          log |-> <<logger_info(opcode, args, t.val), logger_error(operation, t.msg)>>]
    ELSE [ret |-> success_response(operation, t.val),
          log |-> <<logger_info(opcode, args, t.val)>>]

\* try: ...; logger.info(...); return success_response(op, result)
\* except Exception as e: return error_response(op, str(e))
TryExcept(operation, opcode, args, t) ==
    IF t.raised
    THEN [ret |-> error_response(operation, t.msg),
          log |-> <<logger_error(operation, t.msg)>>]
    ELSE [ret |-> success_response(operation, t.val),
          log |-> <<logger_info(opcode, args, t.val)>>]

(***************************************************************************)
(* The tools.  Each operator is the body of one handler applied to its     *)
(* validated argument `data`; it yields the returned envelope `ret` and    *)
(* the lines `log` the call appends to the log.                            *)
(***************************************************************************)
add(data) ==
    TryExcept("add", "ADD", <<data.a, data.b>>,
              Returned(PyFloat(RAdd(data.a, data.b))))

subtract(data) ==
    TryExcept("subtract", "SUB", <<data.a, data.b>>,
              Returned(PyFloat(RSub(data.a, data.b))))

multiply(data) ==
    TryExcept("multiply", "MUL", <<data.a, data.b>>,
              Returned(PyFloat(RMul(data.a, data.b))))

divide_floor(data) ==
    TryExcept("divide", "DIV", <<data.a, data.b>>,
              IF data.b = Zero THEN Raised("Division by zero is not allowed.")
              ELSE Returned(PyFloat(Rat(math_floor(RDiv(data.a, data.b)), 1))))

divide(data) ==
    TryExcept("divide", "DIV", <<data.a, data.b>>,
              IF data.b = Zero THEN Raised("Division by zero is not allowed.")
              ELSE Returned(PyFloat(RDiv(data.a, data.b))))

modulus(data) ==
    TryExcept("modulus", "MOD", <<data.a, data.b>>,
              IF data.b = Zero THEN Raised("Modulus by zero is not allowed.")
              ELSE Returned(PyFloat(PyMod(data.a, data.b))))

power_zero_base_rejected(data) ==
    TryExcept("power", "POW", <<data.base, data.exponent>>,
              IF data.base = Zero THEN Raised("0.0 cannot be raised to a negative power")
              ELSE float_pow(data.base, data.exponent))

power(data) ==
    TryExcept("power", "POW", <<data.base, data.exponent>>,
              float_pow(data.base, data.exponent))

square(data) ==
    TryExcept("square", "SQUARE", <<data.a>>, float_pow(data.a, Rat(2, 1)))

sqrt(data) ==
    TryExcept("sqrt", "SQRT", <<data.a>>,
              IF RLt(data.a, Zero)
              THEN Raised("Square root of negative number is not allowed.")
              ELSE float_pow(data.a, Half))

factorial_integer_check_first(data) ==
    TryExcept("factorial", "FACTORIAL", <<Rat(TruncInt(data.a), 1)>>,
              IF data.a # Rat(TruncInt(data.a), 1)
              THEN Raised("Factorial is only defined for integers.")
              ELSE IF RLt(data.a, Zero)
              THEN Raised("Factorial is not defined for negative numbers.")
              ELSE Returned(PyInt(math_factorial(TruncInt(data.a)))))

factorial(data) ==
    TryExcept("factorial", "FACTORIAL", <<Rat(TruncInt(data.a), 1)>>,
              IF RLt(data.a, Zero)
              THEN Raised("Factorial is not defined for negative numbers.")
              ELSE IF data.a # Rat(TruncInt(data.a), 1)
              THEN Raised("Factorial is only defined for integers.")
              ELSE Returned(PyInt(math_factorial(TruncInt(data.a)))))

absolute(data) ==
    TryExcept("absolute", "ABS", <<data.a>>, Returned(PyFloat(RAbs(data.a))))

logarithm(data) ==
    TryExcept("logarithm", "LOG", <<data.base, data.value>>,
              IF RLe(data.value, Zero)
              THEN Raised("Logarithm is only defined for positive numbers.")
              ELSE IF RLe(data.base, Zero) \/ data.base = One
              THEN Raised("Logarithm base must be positive and not equal to 1.")
              ELSE Returned(math_log(data.value, data.base)))

natural_log(data) ==
    TryExcept("natural_log", "LN", <<data.a>>,
              IF RLe(data.a, Zero)
              THEN Raised("Natural logarithm is only defined for positive numbers.")
              ELSE Returned(math_ln(data.a)))

sine(data) ==
    TryExcept("sine", "SIN", <<data.angle>>,
              Returned(math_sin(math_radians(data.angle))))

cosine(data) ==
    TryExcept("cosine", "COS", <<data.angle>>,
              Returned(math_cos(math_radians(data.angle))))

tangent(data) ==
    TryExcept("tangent", "TAN", <<data.angle>>,
              Returned(math_tan(math_radians(data.angle))))

gcd(data) ==
    TryExcept("gcd", "GCD", <<Rat(TruncInt(data.a), 1), Rat(TruncInt(data.b), 1)>>,
              IF data.a # Rat(TruncInt(data.a), 1) \/ data.b # Rat(TruncInt(data.b), 1)
              THEN Raised("GCD is only defined for integers.")
              ELSE Returned(PyInt(math_gcd(TruncInt(data.a), TruncInt(data.b)))))

lcm(data) ==
    TryExcept("lcm", "LCM", <<Rat(TruncInt(data.a), 1), Rat(TruncInt(data.b), 1)>>,
              IF data.a # Rat(TruncInt(data.a), 1) \/ data.b # Rat(TruncInt(data.b), 1)
              THEN Raised("LCM is only defined for integers.")
              ELSE Returned(PyInt(math_lcm(TruncInt(data.a), TruncInt(data.b)))))

mean(data) ==
    TryExcept("mean", "MEAN", data.numbers,
              IF data.numbers = <<>>
              THEN Raised("Cannot calculate mean of an empty list.")
              ELSE Returned(PyFloat(RDiv(sum(data.numbers),
                                         Rat(Len(data.numbers), 1)))))

median_unsorted(data) ==
    TryExcept("median", "MEDIAN", data.numbers,
              IF data.numbers = <<>>
              THEN Raised("Cannot calculate median of an empty list.")
              ELSE LET sorted_numbers == data.numbers
                       n == Len(sorted_numbers)
                   IN  IF n % 2 = 0
                       THEN Returned(PyFloat(RDiv(RAdd(sorted_numbers[n \div 2],
                                                       sorted_numbers[n \div 2 + 1]),
                                                  Rat(2, 1))))
                       ELSE Returned(PyFloat(sorted_numbers[n \div 2 + 1])))

median(data) ==
    TryExcept("median", "MEDIAN", data.numbers,
              IF data.numbers = <<>>
              THEN Raised("Cannot calculate median of an empty list.")
              ELSE LET sorted_numbers == sorted(data.numbers)
                       n == Len(sorted_numbers)
                   IN  IF n % 2 = 0
                       THEN Returned(PyFloat(RDiv(RAdd(sorted_numbers[n \div 2],
                                                       sorted_numbers[n \div 2 + 1]),
                                                  Rat(2, 1))))
                       ELSE Returned(PyFloat(sorted_numbers[n \div 2 + 1])))

standard_deviation(data) ==
    TryExcept("standard_deviation", "STDDEV", data.numbers,
              IF Len(data.numbers) < 2
              THEN Raised("Standard deviation requires at least 2 numbers.")
              ELSE LET mean_value == RDiv(sum(data.numbers), Rat(Len(data.numbers), 1))
                       variance == RDiv(SumSqDev(data.numbers, mean_value),
                                        Rat(Len(data.numbers) - 1, 1))
                   IN  Returned(math_sqrt(variance)))

ceiling_float(data) ==
    TryExcept("ceiling", "CEIL", <<data.a>>, Returned(PyFloat(Rat(math_ceil(data.a), 1))))

ceiling(data) ==
    TryExcept("ceiling", "CEIL", <<data.a>>, Returned(PyInt(math_ceil(data.a))))

floor(data) ==
    TryExcept("floor", "FLOOR", <<data.a>>, Returned(PyInt(math_floor(data.a))))

(***************************************************************************)
(* Raw payloads and the pydantic schemas that validate them.  A raw value  *)
(* is a JSON number (kind "float" or "int"), a non-numeric string (kind    *)
(* "str") or a list of raw values (kind "list"); a payload maps field      *)
(* names to raw values and may lack a field.                               *)
(***************************************************************************)
FloatRaw(r) == [kind |-> "float", v |-> r, items |-> <<>>]
IntRaw(i) == [kind |-> "int", v |-> Rat(i, 1), items |-> <<>>]
StrRaw == [kind |-> "str", v |-> Zero, items |-> <<>>]
ListRaw(s) == [kind |-> "list", v |-> Zero, items |-> s]

\* a field annotated `float` accepts a number and converts it to float
IsFloat(raw) == raw.kind \in {"float", "int"}
ToFloat(raw) == raw.v

RECURSIVE AllFloat(_)
AllFloat(s) == s = <<>> \/ (IsFloat(Head(s)) /\ AllFloat(Tail(s)))

Invalid == [ok |-> FALSE]

TwoNumberOperation(p) ==
    IF {"a", "b"} \subseteq DOMAIN p /\ IsFloat(p.a) /\ IsFloat(p.b)
    THEN [ok |-> TRUE, data |-> [a |-> ToFloat(p.a), b |-> ToFloat(p.b)]]
    ELSE Invalid

SingleNumberOperation(p) ==
    IF "a" \in DOMAIN p /\ IsFloat(p.a)
    THEN [ok |-> TRUE, data |-> [a |-> ToFloat(p.a)]]
    ELSE Invalid

PowerOperation(p) ==
    IF {"base", "exponent"} \subseteq DOMAIN p /\ IsFloat(p.base) /\ IsFloat(p.exponent)
    THEN [ok |-> TRUE, data |-> [base |-> ToFloat(p.base), exponent |-> ToFloat(p.exponent)]]
    ELSE Invalid

ListOperation(p) ==
    IF "numbers" \in DOMAIN p /\ p.numbers.kind = "list" /\ AllFloat(p.numbers.items)
    THEN [ok |-> TRUE,
          data |-> [numbers |-> [i \in DOMAIN p.numbers.items |-> ToFloat(p.numbers.items[i])]]]
    ELSE Invalid

AngleOperation(p) ==
    IF "angle" \in DOMAIN p /\ IsFloat(p.angle)
    THEN [ok |-> TRUE, data |-> [angle |-> ToFloat(p.angle)]]
    ELSE Invalid

DefaultBase == 10

LogOperation_base_e(p) ==
    IF "value" \in DOMAIN p /\ IsFloat(p.value) /\ ("base" \in DOMAIN p => IsFloat(p.base))
    THEN [ok |-> TRUE,
          data |-> [value |-> ToFloat(p.value),
                    base |-> IF "base" \in DOMAIN p THEN ToFloat(p.base)
                                                   ELSE Rat(2718, 1000)]]
    ELSE Invalid

LogOperation(p) ==
    IF "value" \in DOMAIN p /\ IsFloat(p.value) /\ ("base" \in DOMAIN p => IsFloat(p.base))
    THEN [ok |-> TRUE,
          data |-> [value |-> ToFloat(p.value),
                    base |-> IF "base" \in DOMAIN p THEN ToFloat(p.base)
                                                   ELSE Rat(DefaultBase, 1)]]
    ELSE Invalid

(***************************************************************************)
(* The payloads the model sends.                                           *)
(***************************************************************************)
Nums ==
    {Rat(k, 1) : k \in -MaxAbs..MaxAbs}
        \cup {Rat(-(2 * MaxAbs - 1), 2), Half}

Angles == {Rat(45 * k, 1) : k \in -MaxAbs..MaxAbs}

ListNums == {Rat(-1, 1), Half, Rat(2, 1)}

RECURSIVE ListsUpTo(_)
ListsUpTo(k) ==
    IF k = 0 THEN {<<>>}
    ELSE LET shorter == ListsUpTo(k - 1)
         IN  shorter \cup {Append(s, x) : s \in {t \in shorter : Len(t) = k - 1}, x \in ListNums}

TwoNumberPayloads ==
    {[a |-> FloatRaw(x), b |-> FloatRaw(y)] : x \in Nums, y \in Nums}
        \cup {[a |-> IntRaw(1), b |-> IntRaw(2)],
              [a |-> StrRaw, b |-> FloatRaw(One)],
              [a |-> FloatRaw(One), b |-> StrRaw]}
        \cup {[a |-> FloatRaw(One)]} \cup {[b |-> FloatRaw(One)]}

SingleNumberPayloads ==
    {[a |-> FloatRaw(x)] : x \in Nums}
        \cup {[a |-> IntRaw(2)], [a |-> StrRaw]} \cup {[b |-> FloatRaw(One)]}

PowerPayloads ==
    {[base |-> FloatRaw(x), exponent |-> FloatRaw(y)] : x \in Nums, y \in Nums}
        \cup {[base |-> IntRaw(2), exponent |-> IntRaw(2)],
              [base |-> FloatRaw(One), exponent |-> StrRaw]}
        \cup {[base |-> FloatRaw(One)]}

ListPayloads ==
    {[numbers |-> ListRaw([i \in DOMAIN s |-> FloatRaw(s[i])])] : s \in ListsUpTo(MaxLen)}
        \cup {[numbers |-> ListRaw(<<IntRaw(1), FloatRaw(Half)>>)],
              [numbers |-> ListRaw(<<FloatRaw(One), StrRaw>>)],
              [numbers |-> FloatRaw(One)]}
        \cup {[a |-> FloatRaw(One)]}

AnglePayloads ==
    {[angle |-> FloatRaw(x)] : x \in Angles}
        \cup {[angle |-> IntRaw(90)], [angle |-> StrRaw]} \cup {[a |-> FloatRaw(One)]}

LogPayloads ==
    {[value |-> FloatRaw(x), base |-> FloatRaw(y)] : x \in Nums, y \in Nums \cup {Rat(DefaultBase, 1)}}
        \cup {[value |-> IntRaw(1), base |-> IntRaw(2)],
              [value |-> FloatRaw(One), base |-> StrRaw]}
        \cup {[value |-> FloatRaw(x)] : x \in Nums}
        \cup {[base |-> FloatRaw(One)]}

(***************************************************************************)
(* State.                                                                  *)
(***************************************************************************)
VARIABLES
    tool,       \* name of the tool of the last call, "none" before the first
    payload,    \* raw payload of the last call
    pc,         \* "ready" | "returned" (the handler returned `response`)
                \* | "raised" (ValidationError left to the framework)
    response,   \* the dict returned by the handler of the last call
    log,        \* lines written through `logger`, oldest first
    calls,      \* number of calls served
    served      \* what each call's caller saw, oldest first:
                \* [tool, payload, pc, response]

vars == <<tool, payload, pc, response, log, calls, served>>

NoResponse == [status |-> "none"]

Init ==
    /\ tool = "none"
    /\ payload = [ignored |-> StrRaw]
    /\ pc = "ready"
    /\ response = NoResponse
    /\ log = <<>>
    /\ calls = 0
    /\ served = <<>>

\* the envelope is written into one dict shared by all calls
Dispatch_shared_dict(name, p, v, r) ==
    /\ calls' = calls + 1
    /\ tool' = name
    /\ payload' = p
    /\ IF v.ok
       THEN /\ pc' = "returned"
            /\ response' = [k \in DOMAIN response \cup DOMAIN r.ret |->
                                IF k \in DOMAIN r.ret THEN r.ret[k] ELSE response[k]]
            /\ log' = log \o r.log
       ELSE /\ pc' = "raised"
            /\ response' = response
            /\ log' = log
    /\ served' = Append(served, [tool |-> name, payload |-> p,
                                 pc |-> pc', response |-> response'])

\* @app.tool(): the framework builds `data` from the payload with the
\* schema of the handler's annotation, outside the handler's try block, and
\* calls the handler only when that succeeds.  v is the validation of the
\* payload p and r what the handler does with the validated data.
Dispatch(name, p, v, r) ==
    /\ calls' = calls + 1
    /\ tool' = name
    /\ payload' = p
    /\ IF v.ok
       THEN /\ pc' = "returned"
            /\ response' = r.ret
            /\ log' = log \o r.log
       ELSE /\ pc' = "raised"
            /\ response' = NoResponse
            /\ log' = log
    /\ served' = Append(served, [tool |-> name, payload |-> p,
                                 pc |-> pc', response |-> response'])

call_add ==
    /\ calls < MaxCalls
    /\ \E p \in TwoNumberPayloads :
        Dispatch("add", p, TwoNumberOperation(p), add(TwoNumberOperation(p).data))

call_subtract ==
    /\ calls < MaxCalls
    /\ \E p \in TwoNumberPayloads :
        Dispatch("subtract", p, TwoNumberOperation(p), subtract(TwoNumberOperation(p).data))

call_multiply ==
    /\ calls < MaxCalls
    /\ \E p \in TwoNumberPayloads :
        Dispatch("multiply", p, TwoNumberOperation(p), multiply(TwoNumberOperation(p).data))

call_divide ==
    /\ calls < MaxCalls
    /\ \E p \in TwoNumberPayloads :
        Dispatch("divide", p, TwoNumberOperation(p), divide(TwoNumberOperation(p).data))

call_modulus ==
    /\ calls < MaxCalls
    /\ \E p \in TwoNumberPayloads :
        Dispatch("modulus", p, TwoNumberOperation(p), modulus(TwoNumberOperation(p).data))

call_power ==
    /\ calls < MaxCalls
    /\ \E p \in PowerPayloads :
        Dispatch("power", p, PowerOperation(p), power(PowerOperation(p).data))

call_square ==
    /\ calls < MaxCalls
    /\ \E p \in SingleNumberPayloads :
        Dispatch("square", p, SingleNumberOperation(p), square(SingleNumberOperation(p).data))

call_sqrt ==
    /\ calls < MaxCalls
    /\ \E p \in SingleNumberPayloads :
        Dispatch("sqrt", p, SingleNumberOperation(p), sqrt(SingleNumberOperation(p).data))

call_factorial ==
    /\ calls < MaxCalls
    /\ \E p \in SingleNumberPayloads :
        Dispatch("factorial", p, SingleNumberOperation(p), factorial(SingleNumberOperation(p).data))

call_absolute ==
    /\ calls < MaxCalls
    /\ \E p \in SingleNumberPayloads :
        Dispatch("absolute", p, SingleNumberOperation(p), absolute(SingleNumberOperation(p).data))

call_logarithm ==
    /\ calls < MaxCalls
    /\ \E p \in LogPayloads :
        Dispatch("logarithm", p, LogOperation(p), logarithm(LogOperation(p).data))

call_natural_log ==
    /\ calls < MaxCalls
    /\ \E p \in SingleNumberPayloads :
        Dispatch("natural_log", p, SingleNumberOperation(p), natural_log(SingleNumberOperation(p).data))

call_sine ==
    /\ calls < MaxCalls
    /\ \E p \in AnglePayloads :
        Dispatch("sine", p, AngleOperation(p), sine(AngleOperation(p).data))

call_cosine ==
    /\ calls < MaxCalls
    /\ \E p \in AnglePayloads :
        Dispatch("cosine", p, AngleOperation(p), cosine(AngleOperation(p).data))

call_tangent ==
    /\ calls < MaxCalls
    /\ \E p \in AnglePayloads :
        Dispatch("tangent", p, AngleOperation(p), tangent(AngleOperation(p).data))

call_gcd ==
    /\ calls < MaxCalls
    /\ \E p \in TwoNumberPayloads :
        Dispatch("gcd", p, TwoNumberOperation(p), gcd(TwoNumberOperation(p).data))

call_lcm ==
    /\ calls < MaxCalls
    /\ \E p \in TwoNumberPayloads :
        Dispatch("lcm", p, TwoNumberOperation(p), lcm(TwoNumberOperation(p).data))

call_mean ==
    /\ calls < MaxCalls
    /\ \E p \in ListPayloads :
        Dispatch("mean", p, ListOperation(p), mean(ListOperation(p).data))

call_median ==
    /\ calls < MaxCalls
    /\ \E p \in ListPayloads :
        Dispatch("median", p, ListOperation(p), median(ListOperation(p).data))

call_standard_deviation ==
    /\ calls < MaxCalls
    /\ \E p \in ListPayloads :
        Dispatch("standard_deviation", p, ListOperation(p), standard_deviation(ListOperation(p).data))

call_ceiling ==
    /\ calls < MaxCalls
    /\ \E p \in SingleNumberPayloads :
        Dispatch("ceiling", p, SingleNumberOperation(p), ceiling(SingleNumberOperation(p).data))

call_floor ==
    /\ calls < MaxCalls
    /\ \E p \in SingleNumberPayloads :
        Dispatch("floor", p, SingleNumberOperation(p), floor(SingleNumberOperation(p).data))

Next ==
    \/ call_add
    \/ call_subtract
    \/ call_multiply
    \/ call_divide
    \/ call_modulus
    \/ call_power
    \/ call_square
    \/ call_sqrt
    \/ call_factorial
    \/ call_absolute
    \/ call_logarithm
    \/ call_natural_log
    \/ call_sine
    \/ call_cosine
    \/ call_tangent
    \/ call_gcd
    \/ call_lcm
    \/ call_mean
    \/ call_median
    \/ call_standard_deviation
    \/ call_ceiling
    \/ call_floor

Spec == Init /\ [][Next]_vars

(***************************************************************************)
(* Sessions: several calls in a row on one running server, each tool       *)
(* called with a small repertoire of payloads that makes some calls        *)
(* succeed, some fail a domain check and some fail validation.             *)
(***************************************************************************)
MaxSession == 3    \* calls served in one session

SessionTwoNumberPayloads == {[a |-> FloatRaw(Rat(-3, 1)), b |-> FloatRaw(Zero)]}

SessionSingleNumberPayloads == {[a |-> FloatRaw(Rat(-5, 2))]}

SessionPowerPayloads ==
    {[base |-> FloatRaw(Zero), exponent |-> FloatRaw(Rat(-1, 1))],
     [base |-> FloatRaw(Rat(2, 1)), exponent |-> FloatRaw(Rat(2, 1))]}

SessionListPayloads ==
    {[numbers |-> ListRaw(<<>>)],
     [numbers |-> ListRaw(<<FloatRaw(Rat(2, 1)), FloatRaw(Rat(-1, 1)), FloatRaw(Half)>>)]}

SessionAnglePayloads == {[angle |-> FloatRaw(Rat(90, 1))], [angle |-> StrRaw]}

SessionLogPayloads ==
    {[value |-> FloatRaw(Rat(2, 1))],
     [value |-> FloatRaw(Zero), base |-> FloatRaw(One)]}

session_add ==
    /\ calls < MaxSession
    /\ \E p \in SessionTwoNumberPayloads :
        Dispatch("add", p, TwoNumberOperation(p), add(TwoNumberOperation(p).data))

session_subtract ==
    /\ calls < MaxSession
    /\ \E p \in SessionTwoNumberPayloads :
        Dispatch("subtract", p, TwoNumberOperation(p), subtract(TwoNumberOperation(p).data))

session_multiply ==
    /\ calls < MaxSession
    /\ \E p \in SessionTwoNumberPayloads :
        Dispatch("multiply", p, TwoNumberOperation(p), multiply(TwoNumberOperation(p).data))

session_divide ==
    /\ calls < MaxSession
    /\ \E p \in SessionTwoNumberPayloads :
        Dispatch("divide", p, TwoNumberOperation(p), divide(TwoNumberOperation(p).data))

session_modulus ==
    /\ calls < MaxSession
    /\ \E p \in SessionTwoNumberPayloads :
        Dispatch("modulus", p, TwoNumberOperation(p), modulus(TwoNumberOperation(p).data))

session_power ==
    /\ calls < MaxSession
    /\ \E p \in SessionPowerPayloads :
        Dispatch("power", p, PowerOperation(p), power(PowerOperation(p).data))

session_square ==
    /\ calls < MaxSession
    /\ \E p \in SessionSingleNumberPayloads :
        Dispatch("square", p, SingleNumberOperation(p), square(SingleNumberOperation(p).data))

session_sqrt ==
    /\ calls < MaxSession
    /\ \E p \in SessionSingleNumberPayloads :
        Dispatch("sqrt", p, SingleNumberOperation(p), sqrt(SingleNumberOperation(p).data))

session_factorial ==
    /\ calls < MaxSession
    /\ \E p \in SessionSingleNumberPayloads :
        Dispatch("factorial", p, SingleNumberOperation(p), factorial(SingleNumberOperation(p).data))

session_absolute ==
    /\ calls < MaxSession
    /\ \E p \in SessionSingleNumberPayloads :
        Dispatch("absolute", p, SingleNumberOperation(p), absolute(SingleNumberOperation(p).data))

session_logarithm ==
    /\ calls < MaxSession
    /\ \E p \in SessionLogPayloads :
        Dispatch("logarithm", p, LogOperation(p), logarithm(LogOperation(p).data))

session_natural_log ==
    /\ calls < MaxSession
    /\ \E p \in SessionSingleNumberPayloads :
        Dispatch("natural_log", p, SingleNumberOperation(p), natural_log(SingleNumberOperation(p).data))

session_sine ==
    /\ calls < MaxSession
    /\ \E p \in SessionAnglePayloads :
        Dispatch("sine", p, AngleOperation(p), sine(AngleOperation(p).data))

session_cosine ==
    /\ calls < MaxSession
    /\ \E p \in SessionAnglePayloads :
        Dispatch("cosine", p, AngleOperation(p), cosine(AngleOperation(p).data))

session_tangent ==
    /\ calls < MaxSession
    /\ \E p \in SessionAnglePayloads :
        Dispatch("tangent", p, AngleOperation(p), tangent(AngleOperation(p).data))

session_gcd ==
    /\ calls < MaxSession
    /\ \E p \in SessionTwoNumberPayloads :
        Dispatch("gcd", p, TwoNumberOperation(p), gcd(TwoNumberOperation(p).data))

session_lcm ==
    /\ calls < MaxSession
    /\ \E p \in SessionTwoNumberPayloads :
        Dispatch("lcm", p, TwoNumberOperation(p), lcm(TwoNumberOperation(p).data))

session_mean ==
    /\ calls < MaxSession
    /\ \E p \in SessionListPayloads :
        Dispatch("mean", p, ListOperation(p), mean(ListOperation(p).data))

session_median ==
    /\ calls < MaxSession
    /\ \E p \in SessionListPayloads :
        Dispatch("median", p, ListOperation(p), median(ListOperation(p).data))

session_standard_deviation ==
    /\ calls < MaxSession
    /\ \E p \in SessionListPayloads :
        Dispatch("standard_deviation", p, ListOperation(p), standard_deviation(ListOperation(p).data))

session_ceiling ==
    /\ calls < MaxSession
    /\ \E p \in SessionSingleNumberPayloads :
        Dispatch("ceiling", p, SingleNumberOperation(p), ceiling(SingleNumberOperation(p).data))

session_floor ==
    /\ calls < MaxSession
    /\ \E p \in SessionSingleNumberPayloads :
        Dispatch("floor", p, SingleNumberOperation(p), floor(SingleNumberOperation(p).data))

SessionNext ==
    \/ session_add
    \/ session_subtract
    \/ session_multiply
    \/ session_divide
    \/ session_modulus
    \/ session_power
    \/ session_square
    \/ session_sqrt
    \/ session_factorial
    \/ session_absolute
    \/ session_logarithm
    \/ session_natural_log
    \/ session_sine
    \/ session_cosine
    \/ session_tangent
    \/ session_gcd
    \/ session_lcm
    \/ session_mean
    \/ session_median
    \/ session_standard_deviation
    \/ session_ceiling
    \/ session_floor

SpecSession == Init /\ [][SessionNext]_vars

(***************************************************************************)
(* Properties.                                                             *)
(***************************************************************************)
\* the validated value of field f of the last call's payload
Arg(f) == payload[f].v

SuccessKeys == {"status", "operation", "result"}
ErrorKeys == {"status", "operation", "message"}
IsErrorEnvelope(op, message) ==
    /\ DOMAIN response = ErrorKeys
    /\ response.status = "error"
    /\ response.operation = op
    /\ response.message = message
IsSuccessEnvelope(op) ==
    /\ DOMAIN response = SuccessKeys
    /\ response.status = "success"
    /\ response.operation = op
LastLine == log[Len(log)]

\* C1: whenever a handler has returned (its input passed validation), the
\* returned dict has exactly the keys status, operation, result with status
\* "success", or exactly the keys status, operation, message with status
\* "error", and its operation is the name of the tool that was called.
C1_EnvelopeShape ==
    pc = "returned" =>
        /\ \/ (DOMAIN response = SuccessKeys /\ response.status = "success")
           \/ (DOMAIN response = ErrorKeys /\ response.status = "error")
        /\ response.operation = tool

C1_Witness ==
    /\ pc = "returned"
    /\ tool = "natural_log"
    /\ response.status = "error"
    /\ Arg("a") = Zero

\* the schema a tool's handler is annotated with accepts the last payload
PayloadValid ==
    CASE tool \in {"add", "subtract", "multiply", "divide", "modulus", "gcd", "lcm"}
            -> TwoNumberOperation(payload).ok
      [] tool \in {"square", "sqrt", "factorial", "absolute", "natural_log",
                   "ceiling", "floor"}
            -> SingleNumberOperation(payload).ok
      [] tool = "power" -> PowerOperation(payload).ok
      [] tool = "logarithm" -> LogOperation(payload).ok
      [] tool \in {"sine", "cosine", "tangent"} -> AngleOperation(payload).ok
      [] tool \in {"mean", "median", "standard_deviation"} -> ListOperation(payload).ok
      [] OTHER -> FALSE

\* C2: every failed call, a payload that violates the schema included, ends
\* with the handler returning the error envelope of the called tool; no
\* exception reaches the caller.
C2_EveryFailureIsAnErrorEnvelope ==
    (pc # "ready" /\ ~PayloadValid) =>
        /\ pc = "returned"
        /\ DOMAIN response = ErrorKeys
        /\ response.status = "error"
        /\ response.operation = tool

\* C3: divide returns the error envelope with the division-by-zero message
\* exactly when b = 0, writing no DIV line, and otherwise the success
\* envelope whose result q is the float with q * b = a.
C3_Divide ==
    (pc = "returned" /\ tool = "divide") =>
        IF Arg("b") = Zero
        THEN /\ IsErrorEnvelope("divide", "Division by zero is not allowed.")
             /\ LastLine.level = "ERROR"
        ELSE /\ IsSuccessEnvelope("divide")
             /\ response.result.type = "float"
             /\ response.result.fn = "exact"
             /\ RMul(response.result.x, Arg("b")) = Arg("a")

C3_Witness ==
    /\ pc = "returned"
    /\ tool = "divide"
    /\ Arg("a") = Rat(3, 1)
    /\ Arg("b") = Zero
    /\ response.status = "error"

Fact[k \in Nat] == IF k = 0 THEN 1 ELSE k * Fact[k - 1]

Divides(c, i) == \E k \in -Abs(i)..Abs(i) : i = c * k
IsGcd(g, i, j) ==
    /\ g >= 0
    /\ (i = 0 /\ j = 0) => g = 0
    /\ Divides(g, i)
    /\ Divides(g, j)
    /\ \A c \in 1..(Abs(i) + Abs(j)) : (Divides(c, i) /\ Divides(c, j)) => Divides(c, g)
IsLcm(l, i, j) ==
    IF i = 0 \/ j = 0 THEN l = 0
    ELSE /\ l > 0
         /\ Divides(i, l)
         /\ Divides(j, l)
         /\ \A m \in 1..Abs(i * j) : (Divides(i, m) /\ Divides(j, m)) => l <= m
IsIntResult(v) == v.type = "int" /\ v.fn = "exact" /\ v.x.d = 1 /\ v.y = Zero

\* C5: gcd and lcm return an error envelope exactly when a or b is not
\* integral, with the message "GCD (LCM) is only defined for integers.";
\* otherwise the success envelope holds the integer that is the
\* non-negative greatest common divisor (least common multiple) of a and b.
C5_GcdLcm ==
    (pc = "returned" /\ tool \in {"gcd", "lcm"}) =>
        IF Arg("a").d # 1 \/ Arg("b").d # 1
        THEN IsErrorEnvelope(tool, IF tool = "gcd" THEN "GCD is only defined for integers."
                                                   ELSE "LCM is only defined for integers.")
        ELSE /\ IsSuccessEnvelope(tool)
             /\ IsIntResult(response.result)
             /\ IF tool = "gcd"
                THEN IsGcd(response.result.x.n, Arg("a").n, Arg("b").n)
                ELSE IsLcm(response.result.x.n, Arg("a").n, Arg("b").n)

C5_Witness ==
    /\ pc = "returned"
    /\ tool = "lcm"
    /\ Arg("a") = Rat(-2, 1)
    /\ Arg("b") = Rat(3, 1)
    /\ response.status = "success"
    /\ response.result.x = Rat(6, 1)

\* the list of floats the last call's payload validates to
ArgList == [i \in DOMAIN payload.numbers.items |-> payload.numbers.items[i].v]
Below(s, v) == Cardinality({i \in DOMAIN s : RLt(s[i], v)})
UpTo(s, v) == Cardinality({i \in DOMAIN s : RLe(s[i], v)})
\* v is the k-th smallest element of s
IsKth(s, k, v) ==
    /\ \E i \in DOMAIN s : s[i] = v
    /\ Below(s, v) < k
    /\ k <= UpTo(s, v)
Kth(s, k) == CHOOSE v \in {s[i] : i \in DOMAIN s} : IsKth(s, k, v)

\* C6: median of the empty list is the error envelope with the empty-list
\* message; of a non-empty list of n numbers it is the success envelope
\* holding the ((n+1)/2)-th smallest element when n is odd and the average
\* of the (n/2)-th and (n/2+1)-th smallest when n is even, whatever the
\* input order; the list the call logs is the input, in its input order.
C6_Median ==
    (pc = "returned" /\ tool = "median") =>
        LET s == ArgList
            n == Len(s)
        IN  IF n = 0
            THEN IsErrorEnvelope("median", "Cannot calculate median of an empty list.")
            ELSE /\ IsSuccessEnvelope("median")
                 /\ response.result.type = "float"
                 /\ response.result.fn = "exact"
                 /\ IF n % 2 = 1
                    THEN IsKth(s, (n + 1) \div 2, response.result.x)
                    ELSE RAdd(response.result.x, response.result.x)
                            = RAdd(Kth(s, n \div 2), Kth(s, n \div 2 + 1))
                 /\ LastLine.level = "INFO"
                 /\ LastLine.args = s

C6_Witness ==
    /\ pc = "returned"
    /\ tool = "median"
    /\ PayloadValid
    /\ ArgList = <<Rat(2, 1), Rat(-1, 1), Half>>
    /\ response.status = "success"
    /\ response.result.x = Half

\* C7: logarithm succeeds exactly when value > 0, base > 0 and base # 1;
\* value <= 0 gives the 'positive numbers' message whatever the base, and
\* otherwise an invalid base gives the 'base' message; a payload without
\* `base` gets the envelope of the same payload with base = 10.
C7_Logarithm ==
    (pc = "returned" /\ tool = "logarithm") =>
        LET value == Arg("value")
            base == IF "base" \in DOMAIN payload THEN Arg("base") ELSE [n |-> 10, d |-> 1]
        IN  /\ response.status = "success"
                <=> (RLt(Zero, value) /\ RLt(Zero, base) /\ base # One)
            /\ IF ~RLt(Zero, value)
               THEN IsErrorEnvelope("logarithm",
                        "Logarithm is only defined for positive numbers.")
               ELSE IF ~RLt(Zero, base) \/ base = One
               THEN IsErrorEnvelope("logarithm",
                        "Logarithm base must be positive and not equal to 1.")
               ELSE /\ IsSuccessEnvelope("logarithm")
                    /\ response.result = [type |-> "float", fn |-> "log",
                                          x |-> value, y |-> base]

C7_Witness ==
    /\ pc = "returned"
    /\ tool = "logarithm"
    /\ "base" \notin DOMAIN payload
    /\ Arg("value") = Rat(2, 1)
    /\ response.status = "success"
    /\ response.result.y = [n |-> 10, d |-> 1]

\* C8 as stated: power never returns an error envelope.
C8_PowerNeverFails ==
    (pc = "returned" /\ tool = "power") => response.status = "success"

\* C8 amended: power makes no check of its own; it returns the error
\* envelope for "power" exactly when base = 0 and exponent < 0, where pow
\* raises ZeroDivisionError, and otherwise the success envelope whose
\* result is base raised to exponent, a complex number when base < 0 and
\* the exponent is not integral.
C8_PowerFailsOnlyAtZeroToNegative ==
    (pc = "returned" /\ tool = "power") =>
        LET b == Arg("base")
            e == Arg("exponent")
            r == response.result
            p == IPow(b, Abs(e.n))
        IN  IF b = Zero /\ RLt(e, Zero)
            THEN /\ DOMAIN response = ErrorKeys
                 /\ response.status = "error"
                 /\ response.operation = "power"
                 /\ LastLine.level = "ERROR"
            ELSE /\ IsSuccessEnvelope("power")
                 /\ LastLine.level = "INFO"
                 /\ IF e.d = 1
                    THEN /\ r.type = "float" /\ r.fn = "exact"
                         /\ IF e.n >= 0 THEN r.x = p ELSE RMul(r.x, p) = One
                    ELSE IF RLt(b, Zero)
                    THEN r = [type |-> "complex", fn |-> "pow", x |-> b, y |-> e]
                    ELSE /\ r.type = "float"
                         /\ IF r.fn = "exact"
                            THEN IF e.n >= 0 THEN RMul(r.x, r.x) = p
                                 ELSE RMul(RMul(r.x, r.x), p) = One
                            ELSE r.fn = "pow" /\ r.x = b /\ r.y = e

C8_Witness ==
    /\ pc = "returned"
    /\ tool = "power"
    /\ Arg("base") = Zero
    /\ Arg("exponent") = Rat(-1, 1)
    /\ response.status = "error"

\* C9 as stated: for b # 0 modulus returns the truncated remainder
\* a - b * trunc(a / b), whose sign follows the dividend.
C9_TruncatedRemainder ==
    (pc = "returned" /\ tool = "modulus") =>
        IF Arg("b") = Zero
        THEN IsErrorEnvelope("modulus", "Modulus by zero is not allowed.")
        ELSE /\ IsSuccessEnvelope("modulus")
             /\ response.result.x
                    = RSub(Arg("a"), RMul(Arg("b"), Rat(TruncInt(RDiv(Arg("a"), Arg("b"))), 1)))

\* C9 amended: for b = 0 modulus returns the error envelope with the
\* modulus-by-zero message; for b # 0 it returns the floored remainder r of
\* Python's a % b: a - r is an integral multiple of b, |r| < |b|, and r is
\* zero or has the sign of the divisor b.
C9_FlooredRemainder ==
    (pc = "returned" /\ tool = "modulus") =>
        IF Arg("b") = Zero
        THEN IsErrorEnvelope("modulus", "Modulus by zero is not allowed.")
        ELSE LET r == response.result.x
             IN  /\ IsSuccessEnvelope("modulus")
                 /\ response.result.type = "float"
                 /\ response.result.fn = "exact"
                 /\ RDiv(RSub(Arg("a"), r), Arg("b")).d = 1
                 /\ RLt(RAbs(r), RAbs(Arg("b")))
                 /\ r = Zero \/ (RLt(Zero, r) <=> RLt(Zero, Arg("b")))

C9_Witness ==
    /\ pc = "returned"
    /\ tool = "modulus"
    /\ Arg("a") = Rat(-3, 1)
    /\ Arg("b") = Rat(2, 1)
    /\ response.status = "success"
    /\ response.result.x = One

\* C10 as stated: factorial, gcd and lcm return integers and every other
\* tool returns a float.
C10_OnlyThreeToolsReturnIntegers ==
    (pc = "returned" /\ response.status = "success") =>
        response.result.type
            = IF tool \in {"factorial", "gcd", "lcm"} THEN "int" ELSE "float"

\* C10 amended: factorial, gcd, lcm, ceiling and floor return integers;
\* power returns a complex number when base < 0 and the exponent is not
\* integral; every other successful call returns a float.
C10_ResultTypes ==
    (pc = "returned" /\ response.status = "success") =>
        response.result.type
            = IF tool \in {"factorial", "gcd", "lcm", "ceiling", "floor"} THEN "int"
              ELSE IF tool = "power" /\ RLt(Arg("base"), Zero) /\ Arg("exponent").d # 1
              THEN "complex"
              ELSE "float"

C10_Witness ==
    /\ pc = "returned"
    /\ tool = "ceiling"
    /\ Arg("a") = Half
    /\ response.status = "success"
    /\ response.result.type = "int"
    /\ response.result.x = One

\* the calls of the session whose handler returned an envelope, in call order
RECURSIVE ReturnedCalls(_)
ReturnedCalls(s) ==
    IF s = <<>> THEN <<>>
    ELSE IF Head(s).pc = "returned" THEN <<Head(s)>> \o ReturnedCalls(Tail(s))
    ELSE ReturnedCalls(Tail(s))

OpCode(t) ==
    CASE t = "add" -> "ADD" [] t = "subtract" -> "SUB" [] t = "multiply" -> "MUL"
      [] t = "divide" -> "DIV" [] t = "modulus" -> "MOD" [] t = "power" -> "POW"
      [] t = "square" -> "SQUARE" [] t = "sqrt" -> "SQRT"
      [] t = "factorial" -> "FACTORIAL" [] t = "absolute" -> "ABS"
      [] t = "logarithm" -> "LOG" [] t = "natural_log" -> "LN"
      [] t = "sine" -> "SIN" [] t = "cosine" -> "COS" [] t = "tangent" -> "TAN"
      [] t = "gcd" -> "GCD" [] t = "lcm" -> "LCM" [] t = "mean" -> "MEAN"
      [] t = "median" -> "MEDIAN" [] t = "standard_deviation" -> "STDDEV"
      [] t = "ceiling" -> "CEIL" [] t = "floor" -> "FLOOR"

\* line l is the one line the returned call c writes
LineOf(c, l) ==
    IF c.response.status = "success"
    THEN l.level = "INFO" /\ l.tag = OpCode(c.tool) /\ l.result = c.response.result
    ELSE /\ c.response.status = "error"
         /\ l.level = "ERROR"
         /\ l.tag = c.tool
         /\ l.message = c.response.message

\* C11: every call that returns an envelope keeps the lines already in the
\* log and appends exactly one line to it: an INFO line "<OPCODE> | ... =
\* <result>" for a success envelope, an ERROR line "<operation> failed:
\* <message>" for an error envelope, and never both; so the log always
\* holds, in call order, one line for each call that returned an envelope.
C11_OneLinePerCall ==
    [][LET c == served'[Len(served')]
       IN  /\ IF c.pc = "returned"
              THEN /\ Len(log') = Len(log) + 1
                   /\ SubSeq(log', 1, Len(log)) = log
                   /\ LineOf(c, log'[Len(log')])
              ELSE log' = log
           /\ Len(log') = Len(ReturnedCalls(served'))]_vars

C11_Witness ==
    /\ Len(served) = 3
    /\ served[1].pc = "returned" /\ served[1].response.status = "success"
    /\ served[2].pc = "returned" /\ served[2].response.status = "error"
    /\ served[3].pc = "returned" /\ served[3].response.status = "success"
    /\ Len(log) = 3
    /\ log[1].level = "INFO" /\ log[2].level = "ERROR" /\ log[3].level = "INFO"

====
